---------------------------- MODULE Spec2Model ----------------------------
(***************************************************************************)
(* GitHub-Reporter: the report model (PullRequest, Activity,               *)
(* ProjectSummary, GitHubReport), the GitHub service and the generateReport *)
(* pipeline of src/index.js.                                                *)
(*                                                                         *)
(* Three specifications share the variables:                               *)
(*   SpecModel    the report model driven through its public mutators      *)
(*                (addProject, addActivity, setTotalRepos, addError) while *)
(*                the wall clock advances;                                 *)
(*   SpecProject  a single ProjectSummary and its entities;                *)
(*   Spec         one run of the command line program (generateReport).    *)
(***************************************************************************)
EXTENDS Integers, Sequences, FiniteSets

(***************************************************************************)
(* Time.  Timestamps and the wall clock are ticks.  A local calendar day   *)
(* lasts DayLen ticks ("24h"), except the day DstDay on which the clocks   *)
(* are set back, which lasts one tick more.  Date.setDate and              *)
(* Date.setHours work on the local calendar, so the model keeps the        *)
(* calendar and not only a day length.                                     *)
(***************************************************************************)
DayLen == 2
DstDay == 1

\* local midnight that starts calendar day d
Midnight(d) == d * DayLen + (IF d > DstDay THEN 1 ELSE 0)

\* the clock runs from the last tick of day DstDay to the first of the next
FirstNow == Midnight(DstDay + 1) - 1
LastNow == Midnight(DstDay + 1)
\* every timestamp up to the day after the last clock value
AllDates == 0..(LastNow + DayLen)

\* the timestamps the model's entities carry: the ticks of the day before
\* DstDay and the first tick of DstDay
Dates == Midnight(DstDay - 1)..Midnight(DstDay)

\* the timestamps of GitHub's answers in a run: the ticks of the day before
\* DstDay, which is yesterday at the first clock value and not at the last
AnswerDates == Midnight(DstDay - 1)..(Midnight(DstDay) - 1)

\* calendar day of a timestamp (Date.getDate, as a day number)
DayOf(t) == CHOOSE d \in 0..t : Midnight(d) <= t /\ t < Midnight(d + 1)

(***************************************************************************)
(* Entities                                                                *)
(***************************************************************************)
ActivityTypes == {"pr_created", "pr_commented", "pr_reviewed", "issue_commented"}

\* new PullRequest(title, url, author, date, state): the date decides everything here
PullRequest(date) == [date |-> date]

\* new Activity(type, title, url, date, repoName)
Activity(type, date, repoName) == [type |-> type, date |-> date, repoName |-> repoName]

\* PullRequest.isFromYesterday(), read at clock value t
PullRequest_isFromYesterday(pr, t) ==
    LET yesterday == Midnight(DayOf(t) - 1)
        tomorrow == Midnight(DayOf(yesterday) + 1)
    IN  pr.date >= yesterday /\ pr.date < tomorrow

\* as Activity_isFromYesterday, but with date <= tomorrow: the window closed at its end
Activity_isFromYesterday_Closed(a, t) ==
    LET yesterday == Midnight(DayOf(t) - 1)
        tomorrow == Midnight(DayOf(yesterday) + 1)
    IN  a.date >= yesterday /\ a.date <= tomorrow

\* Activity.isFromYesterday(), read at clock value t
Activity_isFromYesterday(a, t) ==
    LET yesterday == Midnight(DayOf(t) - 1)
        tomorrow == Midnight(DayOf(yesterday) + 1)
    IN  a.date >= yesterday /\ a.date < tomorrow

\* new ProjectSummary(name, description, url, language, lastPR = null);
\* lastPR is <<>> for null and <<pr>> otherwise
ProjectSummary(name, lastPR) == [name |-> name, lastPR |-> lastPR, myActivities |-> <<>>]

\* Array.prototype.filter with the predicate given as the set of kept values
RECURSIVE SelectIdx(_, _, _)
SelectIdx(s, keep, i) ==
    IF i > Len(s) THEN <<>>
    ELSE (IF keep[i] THEN <<s[i]>> ELSE <<>>) \o SelectIdx(s, keep, i + 1)

\* ProjectSummary.getYesterdayActivities()
getYesterdayActivities(p, t) ==
    SelectIdx(p.myActivities,
              [i \in 1..Len(p.myActivities) |-> Activity_isFromYesterday(p.myActivities[i], t)],
              1)

\* as hasYesterdayActivity, but the lastPR is not looked at
hasYesterdayActivity_ActivitiesOnly(p, t) ==
    IF \E i \in 1..Len(p.myActivities) : Activity_isFromYesterday(p.myActivities[i], t)
    THEN "true"
    ELSE "false"

\* ProjectSummary.hasYesterdayActivity(): the JavaScript value of
\*   some(...) || (lastPR && lastPR.isFromYesterday())
\* which is true, false or null
hasYesterdayActivity(p, t) ==
    IF \E i \in 1..Len(p.myActivities) : Activity_isFromYesterday(p.myActivities[i], t)
    THEN "true"
    ELSE IF p.lastPR = <<>> THEN "null"
    ELSE IF PullRequest_isFromYesterday(p.lastPR[1], t) THEN "true"
    ELSE "false"

\* JavaScript truthiness of such a value (filter callbacks, ?:, !)
Truthy(v) == v = "true"

\* as SortByDateDesc, but with the comparator a.date - b.date: oldest first
RECURSIVE SortByDateAsc(_)
SortByDateAsc(s) ==
    LET RECURSIVE Ins(_, _)
        Ins(a, r) == IF r = <<>> THEN <<a>>
                     ELSE IF a.date - r[1].date < 0 THEN <<a>> \o r
                     ELSE <<r[1]>> \o Ins(a, Tail(r))
    IN  IF s = <<>> THEN <<>>
        ELSE Ins(s[Len(s)], SortByDateAsc(SubSeq(s, 1, Len(s) - 1)))

\* Array.prototype.sort((a, b) => b.date - a.date): stable, most recent first
RECURSIVE InsertByDateDesc(_, _)
InsertByDateDesc(a, s) ==
    IF s = <<>> THEN <<a>>
    ELSE IF s[1].date - a.date < 0 THEN <<a>> \o s
    ELSE <<s[1]>> \o InsertByDateDesc(a, Tail(s))

RECURSIVE SortByDateDesc(_)
SortByDateDesc(s) ==
    IF s = <<>> THEN <<>>
    ELSE InsertByDateDesc(s[Len(s)], SortByDateDesc(SubSeq(s, 1, Len(s) - 1)))

\* the days getUserActivity looks back
WeekDays == 7

\* weekAgo: new Date() with setDate(getDate() - 7), the same local time a week earlier
WeekAgo(t) == Midnight(DayOf(t) - WeekDays) + (t - Midnight(DayOf(t)))

\* a created_at older than a week at every clock value
StaleDate == Midnight(DstDay - WeekDays - 1)

(***************************************************************************)
(* Names are sequences of characters, so that split('/') has work to do.   *)
(***************************************************************************)
\* repoName.split('/').pop(): what follows the last '/'
RECURSIVE LastSegment(_)
LastSegment(s) ==
    IF s = <<>> THEN <<>>
    ELSE IF s[Len(s)] = "/" THEN <<>>
    ELSE LastSegment(SubSeq(s, 1, Len(s) - 1)) \o <<s[Len(s)]>>

\* the callback of projects.find in generateReport
NameMatches(p, activity) ==
    \/ p.name = activity.repoName
    \/ p.name = LastSegment(activity.repoName)

\* as FindProject, but the last matching project wins
FindProject_LastMatch(ps, activity) ==
    IF \E i \in 1..Len(ps) : NameMatches(ps[i], activity)
    THEN CHOOSE i \in 1..Len(ps) :
            /\ NameMatches(ps[i], activity)
            /\ \A j \in (i + 1)..Len(ps) : ~NameMatches(ps[j], activity)
    ELSE 0

\* Array.prototype.find: index of the first project the activity matches, 0 for undefined
FindProject(ps, activity) ==
    IF \E i \in 1..Len(ps) : NameMatches(ps[i], activity)
    THEN CHOOSE i \in 1..Len(ps) :
            /\ NameMatches(ps[i], activity)
            /\ \A j \in 1..(i - 1) : ~NameMatches(ps[j], activity)
    ELSE 0

\* userActivities.forEach(activity => { ... project.addActivity(activity) })
RECURSIVE Correlate(_, _)
Correlate(ps, acts) ==
    IF acts = <<>> THEN ps
    ELSE LET k == FindProject(ps, Head(acts))
             next == IF k = 0 THEN ps
                     ELSE [ps EXCEPT ![k].myActivities = Append(@, Head(acts))]
         IN  Correlate(next, Tail(acts))

(***************************************************************************)
(* GitHub's answers                                                        *)
(***************************************************************************)
ProjNames == {<<"a">>, <<"b">>}
RepoNames == {<<"o", "/", "a">>, <<"b">>, <<"o", "/", "c">>}

\* a repository of the listing: its name and whether the record carries an owner
ListedRepos == [name : ProjNames, hasOwner : BOOLEAN]

\* the answer of pulls.list with per_page 1: a failure, or at most one pull request
PullsAnswers ==
    {[ok |-> FALSE, prs |-> <<>>], [ok |-> TRUE, prs |-> <<>>]}
    \cup {[ok |-> TRUE, prs |-> <<[updated_at |-> d]>>] : d \in AnswerDates}

\* an event: flag is payload.action = 'opened' for a PullRequestEvent and
\* payload.issue.pull_request for an IssueCommentEvent
EventKinds ==
    {<<"PullRequestEvent", TRUE>>, <<"PullRequestEvent", FALSE>>,
     <<"IssueCommentEvent", TRUE>>, <<"IssueCommentEvent", FALSE>>,
     <<"PullRequestReviewEvent", FALSE>>, <<"PushEvent", FALSE>>}

Events ==
    {[type |-> k[1], flag |-> k[2], created_at |-> d, repo |-> r] :
        k \in EventKinds, d \in AnswerDates \cup {StaleDate}, r \in RepoNames}

\* GitHubService.getLastPRForRepo: null (<<>>) on failure or when there is no pull request
getLastPRForRepo(answer) ==
    IF ~answer.ok THEN <<>>
    ELSE IF Len(answer.prs) > 0 THEN <<PullRequest(answer.prs[1].updated_at)>>
    ELSE <<>>

\* the switch of getUserActivity: the activity an event becomes, <<>> for none
ActivityOfEvent(e) ==
    IF e.type = "PullRequestEvent"
    THEN (IF e.flag THEN <<Activity("pr_created", e.created_at, e.repo)>> ELSE <<>>)
    ELSE IF e.type = "IssueCommentEvent"
    THEN (IF e.flag THEN <<Activity("pr_commented", e.created_at, e.repo)>>
          ELSE <<Activity("issue_commented", e.created_at, e.repo)>>)
    ELSE IF e.type = "PullRequestReviewEvent"
    THEN <<Activity("pr_reviewed", e.created_at, e.repo)>>
    ELSE <<>>

\* the for loop of getUserActivity, run at clock value t
RECURSIVE ActivitiesOfEvents(_, _)
ActivitiesOfEvents(events, t) ==
    IF events = <<>> THEN <<>>
    ELSE (IF Head(events).created_at < WeekAgo(t) THEN <<>> ELSE ActivityOfEvent(Head(events)))
         \o ActivitiesOfEvents(Tail(events), t)

\* rate.remaining below which checkRateLimit warns
LowQuota == 10

MaxRepos == 3
MaxActs == 2
MaxErrors == 1
MaxListed == 2
MaxEvents == 2

\* sequences over S of length at most n
SeqUpTo(S, n) == UNION {[1..k -> S] : k \in 0..n}

(***************************************************************************)
(* State                                                                   *)
(***************************************************************************)
VARIABLES
    now,                 \* the wall clock read by new Date()
    built,               \* new GitHubReport(username) has run
    projects,            \* report.projects (the same objects as generateReport's projects)
    totalReposAnalyzed,  \* report.totalReposAnalyzed
    errors,              \* report.errors
    pc,                  \* where generateReport stands
    repos,               \* the listing getUserRepos returned
    userActivities,      \* what getUserActivity returned
    loggerErrors,        \* logger.errors: the messages logged with logger.error
    warnings,            \* number of logger.warning lines printed
    consoleOut,          \* what displayConsoleReport printed: <<>> or <<rendering>>
    markdownContent,     \* the result of generateMarkdownReport: <<>> or <<document>>
    outFile,             \* the output file: <<>> or <<document>>
    pullsFailed,         \* the listing positions whose pulls.list request threw
    exitCode             \* -1 while the process runs, then its exit code

reportVars == <<built, projects, totalReposAnalyzed, errors>>
runVars == <<pc, repos, userActivities, loggerErrors, warnings, consoleOut,
             markdownContent, outFile, pullsFailed, exitCode>>
vars == <<now, reportVars, runVars>>

\* GitHubReport.getActiveProjects()
getActiveProjects(t) ==
    SelectIdx(projects,
              [i \in 1..Len(projects) |-> Truthy(hasYesterdayActivity(projects[i], t))],
              1)

\* the forEach/push(...) loop of getAllYesterdayActivities
RECURSIVE FlattenYesterday(_, _)
FlattenYesterday(i, t) ==
    IF i > Len(projects) THEN <<>>
    ELSE getYesterdayActivities(projects[i], t) \o FlattenYesterday(i + 1, t)

\* GitHubReport.getAllYesterdayActivities()
getAllYesterdayActivities(t) == SortByDateDesc(FlattenYesterday(1, t))

\* number of elements of s of the given type: filter(a => a.type === ty).length
CountType(s, ty) == Len(SelectIdx(s, [i \in 1..Len(s) |-> s[i].type = ty], 1))

\* as getExecutiveSummary, but totalActivities is the sum of the three counts
getExecutiveSummary_TotalOfCounted(t) ==
    LET activeProjects == getActiveProjects(t)
        yesterdayActivities == getAllYesterdayActivities(t)
    IN  [totalRepos |-> totalReposAnalyzed,
         activeRepos |-> Len(activeProjects),
         totalActivities |-> CountType(yesterdayActivities, "pr_created")
                             + CountType(yesterdayActivities, "pr_commented")
                             + CountType(yesterdayActivities, "pr_reviewed"),
         createdPRs |-> CountType(yesterdayActivities, "pr_created"),
         comments |-> CountType(yesterdayActivities, "pr_commented"),
         reviews |-> CountType(yesterdayActivities, "pr_reviewed"),
         hasErrors |-> Len(errors) > 0,
         errorCount |-> Len(errors)]

\* as getExecutiveSummary, but comments counts the issue comments too
getExecutiveSummary_AllComments(t) ==
    LET activeProjects == getActiveProjects(t)
        yesterdayActivities == getAllYesterdayActivities(t)
    IN  [totalRepos |-> totalReposAnalyzed,
         activeRepos |-> Len(activeProjects),
         totalActivities |-> Len(yesterdayActivities),
         createdPRs |-> CountType(yesterdayActivities, "pr_created"),
         comments |-> CountType(yesterdayActivities, "pr_commented")
                      + CountType(yesterdayActivities, "issue_commented"),
         reviews |-> CountType(yesterdayActivities, "pr_reviewed"),
         hasErrors |-> Len(errors) > 0,
         errorCount |-> Len(errors)]

\* GitHubReport.getExecutiveSummary()
getExecutiveSummary(t) ==
    LET activeProjects == getActiveProjects(t)
        yesterdayActivities == getAllYesterdayActivities(t)
    IN  [totalRepos |-> totalReposAnalyzed,
         activeRepos |-> Len(activeProjects),
         totalActivities |-> Len(yesterdayActivities),
         createdPRs |-> CountType(yesterdayActivities, "pr_created"),
         comments |-> CountType(yesterdayActivities, "pr_commented"),
         reviews |-> CountType(yesterdayActivities, "pr_reviewed"),
         hasErrors |-> Len(errors) > 0,
         errorCount |-> Len(errors)]

(***************************************************************************)
(* SpecModel: the report model used through its public interface           *)
(***************************************************************************)
NumActs == LET RECURSIVE Sum(_)
               Sum(i) == IF i = 0 THEN 0 ELSE Len(projects[i].myActivities) + Sum(i - 1)
           IN  Sum(Len(projects))

InitModel ==
    /\ now = FirstNow
    /\ built = TRUE
    /\ projects = <<>>
    /\ totalReposAnalyzed = 0
    /\ errors = <<>>
    /\ pc = "client"
    /\ repos = <<>>
    /\ userActivities = <<>>
    /\ loggerErrors = <<>>
    /\ warnings = 0
    /\ consoleOut = <<>>
    /\ markdownContent = <<>>
    /\ outFile = <<>>
    /\ pullsFailed = {}
    /\ exitCode = -1

\* time passes while the process runs
Tick ==
    /\ exitCode = -1
    /\ now < LastNow
    /\ now' = now + 1
    /\ UNCHANGED <<reportVars, runVars>>

\* report.addProject(new ProjectSummary(...))
AddProject ==
    /\ pc = "client"
    /\ Len(projects) < MaxRepos
    /\ \E lastPR \in {<<>>} \cup {<<PullRequest(d)>> : d \in Dates} :
          projects' = Append(projects, ProjectSummary(<<"a">>, lastPR))
    /\ UNCHANGED <<now, built, totalReposAnalyzed, errors, runVars>>

\* project.addActivity(activity)
AddActivity ==
    /\ pc = "client"
    /\ NumActs < MaxActs
    /\ \E i \in 1..Len(projects), ty \in ActivityTypes, d \in Dates :
          projects' = [projects EXCEPT ![i].myActivities =
                          Append(@, Activity(ty, d, projects[i].name))]
    /\ UNCHANGED <<now, built, totalReposAnalyzed, errors, runVars>>

\* report.setTotalRepos(count)
SetTotalRepos ==
    /\ pc = "client"
    /\ \E count \in 0..MaxRepos : totalReposAnalyzed' = count
    /\ UNCHANGED <<now, built, projects, errors, runVars>>

\* report.addError(error)
AddError ==
    /\ pc = "client"
    /\ Len(errors) < MaxErrors
    /\ errors' = Append(errors, "error")
    /\ UNCHANGED <<now, built, projects, totalReposAnalyzed, runVars>>

NextModel == Tick \/ AddProject \/ AddActivity \/ SetTotalRepos \/ AddError

SpecModel == InitModel /\ [][NextModel]_vars

(***************************************************************************)
(* SpecProject: one ProjectSummary, constructed with any lastPR, to which  *)
(* activities are added while the clock advances                           *)
(***************************************************************************)
InitProject ==
    /\ now = FirstNow
    /\ built = TRUE
    /\ projects \in {<<ProjectSummary(<<"a">>, lastPR)>> :
                        lastPR \in {<<>>} \cup {<<PullRequest(d)>> : d \in Dates}}
    /\ totalReposAnalyzed = 1
    /\ errors = <<>>
    /\ pc = "client"
    /\ repos = <<>>
    /\ userActivities = <<>>
    /\ loggerErrors = <<>>
    /\ warnings = 0
    /\ consoleOut = <<>>
    /\ markdownContent = <<>>
    /\ outFile = <<>>
    /\ pullsFailed = {}
    /\ exitCode = -1

NextProject == Tick \/ AddActivity

SpecProject == InitProject /\ [][NextProject]_vars

(***************************************************************************)
(* Rendering                                                               *)
(***************************************************************************)
\* s when the condition holds, nothing otherwise
When(cond, s) == IF cond THEN s ELSE <<>>

\* displayConsoleReport(report), run at clock value t: the summary shown and the headings
displayConsoleReport(t) ==
    LET summary == getExecutiveSummary(t)
        activeProjects == getActiveProjects(t)
        yesterdayActivities == getAllYesterdayActivities(t)
    IN  [summary |-> summary,
         sections |-> <<"EXECUTIVE SUMMARY">>
                      \o When(Len(yesterdayActivities) > 0, <<"YESTERDAY'S ACTIVITIES">>)
                      \o (IF Len(activeProjects) > 0 THEN <<"ACTIVE PROJECTS">>
                          ELSE <<"No activity detected for yesterday.">>)]

\* generateMarkdownReport(report), run at clock value t: the figures of the
\* Executive Summary, the section headings in document order and the status
\* markers of the repository list
generateMarkdownReport(t) ==
    LET summary == getExecutiveSummary(t)
        activeProjects == getActiveProjects(t)
        yesterdayActivities == getAllYesterdayActivities(t)
    IN  [summary |-> summary,
         sections |-> <<"header", "Executive Summary">>
                      \o When(Len(yesterdayActivities) > 0, <<"Yesterday's Activities">>)
                      \o When(Len(activeProjects) > 0, <<"Active Projects">>)
                      \o When(Len(projects) > Len(activeProjects), <<"All Repositories">>)
                      \o When(summary.hasErrors, <<"Errors Encountered">>)
                      \o <<"footer">>,
         markers |-> IF Len(projects) > Len(activeProjects)
                     THEN [i \in 1..Len(projects) |->
                             IF Truthy(hasYesterdayActivity(projects[i], t))
                             THEN "green" ELSE "white"]
                     ELSE <<>>]

(***************************************************************************)
(* Spec: one run of the program (the commander action and generateReport)  *)
(***************************************************************************)
Init ==
    /\ now = FirstNow
    /\ built = FALSE
    /\ projects = <<>>
    /\ totalReposAnalyzed = 0
    /\ errors = <<>>
    /\ pc = "validateConnection"
    /\ repos = <<>>
    /\ userActivities = <<>>
    /\ loggerErrors = <<>>
    /\ warnings = 0
    /\ consoleOut = <<>>
    /\ markdownContent = <<>>
    /\ outFile = <<>>
    /\ pullsFailed = {}
    /\ exitCode = -1

\* as Abort, but the process ends with exit code 0
Abort_ExitZero(logged) ==
    /\ loggerErrors' = loggerErrors \o logged \o <<"Failed to generate report">>
    /\ exitCode' = 0
    /\ pc' = "exited"

\* the catch of the commander action: log, then process.exit(1)
Abort(logged) ==
    /\ loggerErrors' = loggerErrors \o logged \o <<"Failed to generate report">>
    /\ exitCode' = 1
    /\ pc' = "exited"

\* await githubService.validateConnection()
ValidateConnection ==
    /\ pc = "validateConnection"
    /\ \E ok \in BOOLEAN :
          IF ok
          THEN /\ pc' = "checkRateLimit"
               /\ UNCHANGED <<loggerErrors, exitCode>>
          ELSE Abort(<<"Failed to connect to GitHub">>)
    /\ UNCHANGED <<now, pullsFailed, reportVars, repos, userActivities, warnings, consoleOut,
                   markdownContent, outFile>>

\* await githubService.checkRateLimit(); then new GitHubReport(username)
CheckRateLimit ==
    /\ pc = "checkRateLimit"
    /\ \E ok \in BOOLEAN, remaining \in {LowQuota - 1, LowQuota} :
          warnings' = IF ~ok \/ remaining < LowQuota THEN warnings + 1 ELSE warnings
    /\ built' = TRUE
    /\ projects' = <<>>
    /\ totalReposAnalyzed' = 0
    /\ errors' = <<>>
    /\ pc' = "getUserRepos"
    /\ UNCHANGED <<now, pullsFailed, repos, userActivities, loggerErrors, consoleOut,
                   markdownContent, outFile, exitCode>>

\* as GetUserRepos, but report.setTotalRepos is not called
GetUserRepos_NoTotal ==
    /\ pc = "getUserRepos"
    /\ \E ok \in BOOLEAN, listing \in SeqUpTo(ListedRepos, MaxListed) :
          IF ok
          THEN /\ repos' = listing
               /\ pc' = IF Len(listing) = 0 THEN "getUserActivity" ELSE "getRepoDetails"
               /\ UNCHANGED <<loggerErrors, exitCode>>
          ELSE /\ Abort(<<"Failed to fetch repositories">>)
               /\ UNCHANGED repos
    /\ UNCHANGED <<now, pullsFailed, reportVars, userActivities, warnings, consoleOut,
                   markdownContent, outFile>>

\* await githubService.getUserRepos(username); report.setTotalRepos(repos.length)
GetUserRepos ==
    /\ pc = "getUserRepos"
    /\ \E ok \in BOOLEAN, listing \in SeqUpTo(ListedRepos, MaxListed) :
          IF ok
          THEN /\ repos' = listing
               /\ totalReposAnalyzed' = Len(listing)
               /\ pc' = IF Len(listing) = 0 THEN "getUserActivity" ELSE "getRepoDetails"
               /\ UNCHANGED <<loggerErrors, exitCode>>
          ELSE /\ Abort(<<"Failed to fetch repositories">>)
               /\ UNCHANGED <<repos, totalReposAnalyzed>>
    /\ UNCHANGED <<now, pullsFailed, built, projects, errors, userActivities, warnings, consoleOut,
                   markdownContent, outFile>>

\* as getRepoDetails, but a pulls.list request that throws reaches the catch of
\* getRepoDetails like any other failure of the processing
getRepoDetails_PullsFailureLogged(repo, answer) ==
    IF repo.hasOwner /\ answer.ok
    THEN [project |-> ProjectSummary(repo.name, getLastPRForRepo(answer)),
          logged |-> <<>>,
          pullsThrew |-> FALSE]
    ELSE [project |-> ProjectSummary(repo.name, <<>>),
          logged |-> <<"Failed to process repo">>,
          pullsThrew |-> repo.hasOwner]

\* GitHubService.getRepoDetails(repo, ...): the project, what it logged and
\* whether its pulls.list request threw.  Reading repo.owner.login of a record
\* without owner throws inside the try, before the request is made.
getRepoDetails(repo, answer) ==
    IF repo.hasOwner
    THEN [project |-> ProjectSummary(repo.name, getLastPRForRepo(answer)),
          logged |-> <<>>,
          pullsThrew |-> ~answer.ok]
    ELSE [project |-> ProjectSummary(repo.name, <<>>),
          logged |-> <<"Failed to process repo">>,
          pullsThrew |-> FALSE]

\* one round of the for loop: getRepoDetails, projects.push, report.addProject
GetRepoDetails ==
    /\ pc = "getRepoDetails"
    /\ LET i == Len(projects) + 1 IN
       \E answer \in PullsAnswers :
          LET r == getRepoDetails(repos[i], answer) IN
          /\ projects' = Append(projects, r.project)
          /\ loggerErrors' = loggerErrors \o r.logged
          /\ pullsFailed' = IF r.pullsThrew THEN pullsFailed \cup {i} ELSE pullsFailed
          /\ pc' = IF i < Len(repos) THEN "getRepoDetails" ELSE "getUserActivity"
    /\ UNCHANGED <<now, built, totalReposAnalyzed, errors, repos, userActivities, warnings,
                   consoleOut, markdownContent, outFile, exitCode>>

\* await githubService.getUserActivity(username)
GetUserActivity ==
    /\ pc = "getUserActivity"
    /\ \E ok \in BOOLEAN, events \in SeqUpTo(Events, MaxEvents) :
          IF ok
          THEN /\ userActivities' = ActivitiesOfEvents(events, now)
               /\ UNCHANGED loggerErrors
          ELSE /\ userActivities' = <<>>
               /\ loggerErrors' = loggerErrors \o <<"Failed to fetch user activity">>
    /\ pc' = "correlate"
    /\ UNCHANGED <<now, pullsFailed, reportVars, repos, warnings, consoleOut, markdownContent, outFile,
                   exitCode>>

\* the correlation step: userActivities.forEach(...)
CorrelateActivities ==
    /\ pc = "correlate"
    /\ projects' = Correlate(projects, userActivities)
    /\ pc' = "display"
    /\ UNCHANGED <<now, pullsFailed, built, totalReposAnalyzed, errors, repos, userActivities,
                   loggerErrors, warnings, consoleOut, markdownContent, outFile, exitCode>>

\* displayConsoleReport(report)
DisplayConsoleReport ==
    /\ pc = "display"
    /\ consoleOut' = <<displayConsoleReport(now)>>
    /\ pc' = "markdown"
    /\ UNCHANGED <<now, pullsFailed, reportVars, repos, userActivities, loggerErrors, warnings,
                   markdownContent, outFile, exitCode>>

\* as GenerateMarkdownReport, but the document is saved as soon as it is generated
GenerateMarkdownReport_Saves ==
    /\ pc = "markdown"
    /\ markdownContent' = <<generateMarkdownReport(now)>>
    /\ outFile' = markdownContent'
    /\ pc' = "writeFile"
    /\ UNCHANGED <<now, pullsFailed, reportVars, repos, userActivities, loggerErrors, warnings,
                   consoleOut, exitCode>>

\* const markdownContent = generateMarkdownReport(report)
GenerateMarkdownReport ==
    /\ pc = "markdown"
    /\ markdownContent' = <<generateMarkdownReport(now)>>
    /\ pc' = "writeFile"
    /\ UNCHANGED <<now, pullsFailed, reportVars, repos, userActivities, loggerErrors, warnings,
                   consoleOut, outFile, exitCode>>

\* await writeFile(options.output, markdownContent); then the process ends
WriteFile ==
    /\ pc = "writeFile"
    /\ \E ok \in BOOLEAN :
          IF ok
          THEN /\ outFile' = markdownContent
               /\ exitCode' = 0
               /\ pc' = "exited"
               /\ UNCHANGED loggerErrors
          ELSE /\ Abort(<<>>)
               /\ UNCHANGED outFile
    /\ UNCHANGED <<now, pullsFailed, reportVars, repos, userActivities, warnings, consoleOut,
                   markdownContent>>

Next ==
    \/ Tick
    \/ ValidateConnection
    \/ CheckRateLimit
    \/ GetUserRepos
    \/ GetRepoDetails
    \/ GetUserActivity
    \/ CorrelateActivities
    \/ DisplayConsoleReport
    \/ GenerateMarkdownReport
    \/ WriteFile

Spec == Init /\ [][Next]_vars

(***************************************************************************)
(* Notions of the specification, stated without the program's functions   *)
(***************************************************************************)
\* the timestamp d falls on the local calendar day before the one of t
InYesterday(d, t) == DayOf(d) = DayOf(t) - 1

\* n is the last '/'-separated segment of r
IsLastSegmentOf(n, r) ==
    \E k \in 0..Len(r) :
        /\ k = 0 \/ r[k] = "/"
        /\ \A m \in (k + 1)..Len(r) : r[m] # "/"
        /\ n = SubSeq(r, k + 1, Len(r))

\* project i is the first, in listing order, that activity a names
IsOwner(i, a) ==
    LET Named(j) == projects[j].name = a.repoName
                    \/ IsLastSegmentOf(projects[j].name, a.repoName)
    IN  Named(i) /\ \A j \in 1..(i - 1) : ~Named(j)

\* the correlation step of generateReport has run
Correlated == pc \in {"display", "markdown", "writeFile"}
              \/ (pc = "exited" /\ consoleOut # <<>>)

\* positions (project, index) of the stored activities
Stored == {ij \in (1..Len(projects)) \X (1..(MaxActs + MaxEvents + 1)) :
              ij[2] <= Len(projects[ij[1]].myActivities)}
StoredAt(ij) == projects[ij[1]].myActivities[ij[2]]

\* positions of the stored activities dated yesterday at clock value t
StoredYesterday(t) == {ij \in Stored : InYesterday(StoredAt(ij).date, t)}

(***************************************************************************)
(* C1  After the correlation step every fetched activity is in the         *)
(* activity list of exactly the first project, in listing order, whose     *)
(* name is the activity's repoName or its last '/'-separated segment; an   *)
(* activity no project matches is in no list, and the lists hold nothing   *)
(* else: each list has as many entries as there are fetched activities the *)
(* project owns.                                                           *)
(***************************************************************************)
C1_Correlation ==
    Correlated =>
        /\ \A k \in 1..Len(userActivities) : \A i \in 1..Len(projects) :
              (\E j \in 1..Len(projects[i].myActivities) :
                    projects[i].myActivities[j] = userActivities[k])
              <=> IsOwner(i, userActivities[k])
        /\ \A i \in 1..Len(projects) :
              Len(projects[i].myActivities) =
                  Cardinality({k \in 1..Len(userActivities) : IsOwner(i, userActivities[k])})

\* two projects share the name a; an activity of o/a went to the first of them
\* and an activity of a repository that is not listed went nowhere
C1_Witness ==
    /\ Correlated
    /\ Len(projects) = 2
    /\ projects[1].name = <<"a">> /\ projects[2].name = <<"a">>
    /\ Len(userActivities) = 2
    /\ userActivities[1].repoName = <<"o", "/", "c">>
    /\ userActivities[2].repoName = <<"o", "/", "a">>
    /\ projects[1].myActivities = <<userActivities[2]>>
    /\ projects[2].myActivities = <<>>

(***************************************************************************)
(* C2  For every project, hasYesterdayActivity() is truthy exactly when    *)
(* one of its activities is dated yesterday or it has a lastPR dated       *)
(* yesterday.                                                              *)
(***************************************************************************)
C2_HasYesterdayActivity ==
    \A i \in 1..Len(projects) :
        Truthy(hasYesterdayActivity(projects[i], now))
        <=> \/ \E j \in 1..Len(projects[i].myActivities) :
                  InYesterday(projects[i].myActivities[j].date, now)
            \/ /\ projects[i].lastPR # <<>>
               /\ InYesterday(projects[i].lastPR[1].date, now)

\* a project without activities is active through its lastPR alone, next to
\* a project with neither
C2_Witness ==
    /\ Len(projects) = 2
    /\ projects[1].myActivities = <<>>
    /\ projects[1].lastPR # <<>>
    /\ InYesterday(projects[1].lastPR[1].date, now)
    /\ Truthy(hasYesterdayActivity(projects[1], now))
    /\ projects[2].myActivities = <<>>
    /\ projects[2].lastPR = <<>>
    /\ ~Truthy(hasYesterdayActivity(projects[2], now))

(***************************************************************************)
(* C3  getExecutiveSummary() gives totalRepos = totalReposAnalyzed,        *)
(* activeRepos = the number of projects with hasYesterdayActivity(),       *)
(* totalActivities = the number of stored activities dated yesterday,      *)
(* createdPRs / comments / reviews = the number of those of type           *)
(* pr_created / pr_commented / pr_reviewed, errorCount = the length of     *)
(* errors and hasErrors = (errorCount > 0).                                *)
(***************************************************************************)
C3_ExecutiveSummary ==
    LET summary == getExecutiveSummary(now)
        OfType(ty) == {ij \in StoredYesterday(now) : StoredAt(ij).type = ty}
    IN  /\ summary.totalRepos = totalReposAnalyzed
        /\ summary.activeRepos =
              Cardinality({i \in 1..Len(projects) :
                              Truthy(hasYesterdayActivity(projects[i], now))})
        /\ summary.totalActivities = Cardinality(StoredYesterday(now))
        /\ summary.createdPRs = Cardinality(OfType("pr_created"))
        /\ summary.comments = Cardinality(OfType("pr_commented"))
        /\ summary.reviews = Cardinality(OfType("pr_reviewed"))
        /\ summary.errorCount = Len(errors)
        /\ summary.hasErrors = (summary.errorCount > 0)

\* the scenario of the specification: three projects, a pr_created and a
\* pr_reviewed of yesterday in two of them, nothing in the third
C3_Witness ==
    /\ Len(projects) = 3
    /\ totalReposAnalyzed = 3
    /\ Len(errors) = 1
    /\ \A i \in 1..3 : projects[i].lastPR = <<>>
    /\ Len(projects[1].myActivities) = 1
    /\ projects[1].myActivities[1].type = "pr_created"
    /\ Len(projects[2].myActivities) = 1
    /\ projects[2].myActivities[1].type = "pr_reviewed"
    /\ projects[3].myActivities = <<>>
    /\ getExecutiveSummary(now) =
          [totalRepos |-> 3, activeRepos |-> 2, totalActivities |-> 2, createdPRs |-> 1,
           comments |-> 0, reviews |-> 1, hasErrors |-> TRUE, errorCount |-> 1]

(***************************************************************************)
(* C4  getAllYesterdayActivities() returns exactly the stored activities   *)
(* dated yesterday, each as often as it is stored, most recent first       *)
(* (a.date >= b.date for adjacent a, b); the steps that call it leave      *)
(* every project's activity list as it was.                                *)
(***************************************************************************)
\* the result of getAllYesterdayActivities(): sorted, and the stored
\* yesterday-dated activities with their multiplicities
C4_ResultOK ==
    LET result == getAllYesterdayActivities(now)
    IN  /\ \A k \in 1..(Len(result) - 1) : result[k].date >= result[k + 1].date
        /\ Len(result) = Cardinality(StoredYesterday(now))
        /\ \A ij \in StoredYesterday(now) :
              Cardinality({k \in 1..Len(result) : result[k] = StoredAt(ij)})
              = Cardinality({xy \in StoredYesterday(now) : StoredAt(xy) = StoredAt(ij)})

\* C4: in every state the result is as described, and the rendering steps, which
\* call getAllYesterdayActivities(), leave report.projects unchanged
C4_AllYesterdayActivities ==
    /\ []C4_ResultOK
    /\ [][(pc \in {"display", "markdown"}) => (projects' = projects)]_vars

\* rendered: the earlier activity is stored in the first project, the later
\* one in the second, and the result lists the later one first
C4_Witness ==
    /\ consoleOut # <<>>
    /\ Len(projects) = 2
    /\ Len(projects[1].myActivities) = 1
    /\ Len(projects[2].myActivities) = 1
    /\ projects[1].myActivities[1].date < projects[2].myActivities[1].date
    /\ getAllYesterdayActivities(now)
          = <<projects[2].myActivities[1], projects[1].myActivities[1]>>

(***************************************************************************)
(* C5  getExecutiveSummary() is idempotent: the run calls it twice on the  *)
(* same report with no mutation in between, in displayConsoleReport and in *)
(* generateMarkdownReport, and both calls return the same value in every   *)
(* field.                                                                  *)
(***************************************************************************)
C5_Idempotent ==
    (consoleOut # <<>> /\ markdownContent # <<>>)
        => consoleOut[1].summary = markdownContent[1].summary

(***************************************************************************)
(* C6  The window of the specification: Y0 is the local midnight one       *)
(* calendar day before now and Y1 = Y0 + DayLen ("24h").  As stated:       *)
(* isFromYesterday() of PullRequest and Activity holds of a timestamp t    *)
(* exactly when Y0 <= t < Y1.                                              *)
(***************************************************************************)
IsMidnight(m) == \E d \in 0..m : Midnight(d) = m

\* the last local midnight at or before t
LastMidnight(t) == CHOOSE m \in 0..t : IsMidnight(m) /\ \A k \in (m + 1)..t : ~IsMidnight(k)

\* Y1 as the code has it, the local midnight that starts today, and Y0
Today0(t) == LastMidnight(t)
Y0(t) == LastMidnight(Today0(t) - 1)

C6_Window24h ==
    \A t \in AllDates :
        /\ PullRequest_isFromYesterday(PullRequest(t), now)
              <=> (Y0(now) <= t /\ t < Y0(now) + DayLen)
        /\ Activity_isFromYesterday(Activity("pr_created", t, <<"a">>), now)
              <=> (Y0(now) <= t /\ t < Y0(now) + DayLen)

(***************************************************************************)
(* C6 as amended: the window is the local calendar day before now, from    *)
(* its midnight Y0 to the midnight Y1 that starts today (Y0 + 24h unless   *)
(* the clocks changed yesterday).  isFromYesterday() of both entities      *)
(* holds of t exactly when Y0 <= t < Y1; Y0 is in, Y1 is out, and no       *)
(* timestamp is yesterday's both now and at a clock value of the next day. *)
(***************************************************************************)
C6_WindowCalendarDay ==
    LET y0 == Y0(now)
        y1 == Today0(now)
        nextDay == {later \in now..(LastNow + DayLen) : Y0(later) = y1}
        InWindow(t) == y0 <= t /\ t < y1
    IN  /\ \A t \in AllDates :
              /\ PullRequest_isFromYesterday(PullRequest(t), now) <=> InWindow(t)
              /\ Activity_isFromYesterday(Activity("pr_created", t, <<"a">>), now)
                    <=> InWindow(t)
              /\ Activity_isFromYesterday(Activity("pr_created", t, <<"a">>), now)
                    => \A later \in nextDay :
                          ~Activity_isFromYesterday(Activity("pr_created", t, <<"a">>), later)
        /\ nextDay # {}
        /\ Activity_isFromYesterday(Activity("pr_created", y0, <<"a">>), now)
        /\ ~Activity_isFromYesterday(Activity("pr_created", y1, <<"a">>), now)
        /\ \A i \in 1..Len(projects) :
              /\ \A j \in 1..Len(projects[i].myActivities) :
                    Activity_isFromYesterday(projects[i].myActivities[j], now)
                    <=> InWindow(projects[i].myActivities[j].date)
              /\ projects[i].lastPR # <<>> =>
                    (PullRequest_isFromYesterday(projects[i].lastPR[1], now)
                     <=> InWindow(projects[i].lastPR[1].date))

\* a project stores an activity dated exactly Y0 and one dated exactly Y1, and
\* has a lastPR dated Y1: only the first activity is yesterday's
C6_Witness ==
    /\ Len(projects) = 1
    /\ Len(projects[1].myActivities) = 2
    /\ projects[1].myActivities[1].date = Y0(now)
    /\ projects[1].myActivities[2].date = Today0(now)
    /\ projects[1].lastPR # <<>>
    /\ projects[1].lastPR[1].date = Today0(now)
    /\ ~PullRequest_isFromYesterday(projects[1].lastPR[1], now)
    /\ getYesterdayActivities(projects[1], now) = <<projects[1].myActivities[1]>>

(***************************************************************************)
(* C7  Once the ingestion loop has completed, totalReposAnalyzed equals    *)
(* the number of projects, and the projects are the listed repositories,   *)
(* one each and in listing order, whatever failed on the way; from then on *)
(* no project is removed or replaced.                                      *)
(***************************************************************************)
IngestionDone == pc \in {"getUserActivity", "correlate", "display", "markdown", "writeFile"}
                 \/ (pc = "exited" /\ consoleOut # <<>>)

\* after ingestion: the count, and one project per listed repository, in order
C7_OnePerRepo ==
    IngestionDone =>
        /\ totalReposAnalyzed = Len(projects)
        /\ Len(projects) = Len(repos)
        /\ \A i \in 1..Len(repos) : projects[i].name = repos[i].name

\* C7: the invariant after the ingestion loop, and no project removed afterwards
C7_Ingestion ==
    /\ []C7_OnePerRepo
    /\ [][IngestionDone =>
            (/\ Len(projects') = Len(projects)
             /\ \A i \in 1..Len(projects) : projects'[i].name = projects[i].name)]_vars

\* two repositories: the first failed in its detail processing and has its
\* minimal project, the second has its lastPR
C7_Witness ==
    /\ IngestionDone
    /\ Len(repos) = 2
    /\ ~repos[1].hasOwner
    /\ loggerErrors = <<"Failed to process repo">>
    /\ projects[1] = ProjectSummary(repos[1].name, <<>>)
    /\ projects[2].lastPR # <<>>
    /\ totalReposAnalyzed = 2

(***************************************************************************)
(* C8  A run in which exactly one repository's detail processing failed    *)
(* (and nothing else) ends with one project per repository, exactly one    *)
(* entry in report.errors, hasErrors = true and errorCount = 1 in the      *)
(* executive summary, the Errors section in the markdown, and exit code 0. *)
(***************************************************************************)
InSeq(x, s) == \E k \in 1..Len(s) : s[k] = x

C8_ErrorsReachReport ==
    (pc = "exited" /\ outFile # <<>> /\ loggerErrors = <<"Failed to process repo">>)
        => /\ Len(projects) = Len(repos)
           /\ Len(errors) = 1
           /\ outFile[1].summary.hasErrors
           /\ outFile[1].summary.errorCount = 1
           /\ InSeq("Errors Encountered", outFile[1].sections)
           /\ exitCode = 0

(***************************************************************************)
(* C9  As stated: a failed connection validation aborts the run before a   *)
(* report is built, with nothing rendered, no file written and a non-zero  *)
(* exit code; every run whose connection validation succeeded has rendered *)
(* the console report, written the markdown file and exited with zero.     *)
(***************************************************************************)
Exited == pc = "exited"
ConnectFailed == InSeq("Failed to connect to GitHub", loggerErrors)
ListingFailed == InSeq("Failed to fetch repositories", loggerErrors)

C9_OnlyAuthIsFatal ==
    /\ (Exited /\ ConnectFailed) =>
          (~built /\ consoleOut = <<>> /\ outFile = <<>> /\ exitCode # 0)
    /\ (Exited /\ ~ConnectFailed) =>
          (consoleOut # <<>> /\ outFile # <<>> /\ exitCode = 0)

(***************************************************************************)
(* C9 as amended: a failed connection validation aborts the run before a   *)
(* report is built, and a failed repository listing aborts it with an      *)
(* empty report; in both cases nothing is rendered, no file is written and *)
(* the exit code is 1.  Every other run, whatever the rate-limit check,    *)
(* the per-repository processing and the activity fetch did, has rendered  *)
(* the console report and produced the markdown, and exits with 0 exactly  *)
(* when the file was written (1 when writeFile failed).  Until the exit    *)
(* the run can always take its next step.                                  *)
(***************************************************************************)
\* the run stands at one of its steps, and in the loop there is a repository left
CanStep ==
    /\ pc \in {"validateConnection", "checkRateLimit", "getUserRepos", "getRepoDetails",
               "getUserActivity", "correlate", "display", "markdown", "writeFile"}
    /\ pc = "getRepoDetails" => Len(projects) < Len(repos)

C9_FatalClasses ==
    /\ (Exited /\ ConnectFailed) =>
          (/\ ~built
           /\ consoleOut = <<>> /\ markdownContent = <<>> /\ outFile = <<>>
           /\ exitCode = 1)
    /\ (Exited /\ ListingFailed) =>
          (/\ built /\ projects = <<>>
           /\ consoleOut = <<>> /\ markdownContent = <<>> /\ outFile = <<>>
           /\ exitCode = 1)
    /\ (Exited /\ ~ConnectFailed /\ ~ListingFailed) =>
          (/\ consoleOut # <<>> /\ markdownContent # <<>>
           /\ exitCode \in {0, 1}
           /\ exitCode = 0 <=> outFile = markdownContent
           /\ exitCode = 1 <=> outFile = <<>>)
    /\ ~Exited => (exitCode = -1 /\ CanStep)

\* the rate limit was low, a repository failed in its processing and the
\* activity fetch failed: the file is written and the exit code is 0
C9_Witness ==
    /\ Exited
    /\ warnings = 1
    /\ loggerErrors = <<"Failed to process repo", "Failed to fetch user activity">>
    /\ consoleOut # <<>>
    /\ outFile # <<>>
    /\ exitCode = 0

(***************************************************************************)
(* C10  The markdown document has its sections in the fixed order header,  *)
(* Executive Summary, Yesterday's Activities, Active Projects, All         *)
(* Repositories, Errors Encountered, footer; the first two and the last    *)
(* always, Yesterday's Activities iff an activity is dated yesterday,      *)
(* Active Projects iff a project is active, All Repositories iff a project *)
(* is inactive, Errors Encountered iff errors occurred in the run.         *)
(***************************************************************************)
ErrorsOccurred == errors # <<>> \/ loggerErrors # <<>>

C10_ExpectedSections ==
    <<"header", "Executive Summary">>
    \o When(StoredYesterday(now) # {}, <<"Yesterday's Activities">>)
    \o When(\E i \in 1..Len(projects) : Truthy(hasYesterdayActivity(projects[i], now)),
            <<"Active Projects">>)
    \o When(\E i \in 1..Len(projects) : ~Truthy(hasYesterdayActivity(projects[i], now)),
            <<"All Repositories">>)
    \o When(ErrorsOccurred, <<"Errors Encountered">>)
    \o <<"footer">>

C10_MarkdownSections ==
    [][(pc = "markdown" /\ pc' = "writeFile")
          => markdownContent'[1].sections = C10_ExpectedSections]_vars

(***************************************************************************)
(* C11  A repository whose pull-request fetch (pulls.list) threw still     *)
(* gets its ProjectSummary, with lastPR = null; the step adds no entry to  *)
(* logger.errors and none to report.errors, the run does not exit and goes *)
(* on with the next repository (with the activity fetch after the last     *)
(* one).  The only "Failed to process repo" entries are those of the       *)
(* repositories whose processing itself failed.                            *)
(***************************************************************************)
\* how often the message x is in logger.errors
CountLogged(x) == Cardinality({k \in 1..Len(loggerErrors) : loggerErrors[k] = x})

\* every repository whose pulls.list threw has its project, without a lastPR,
\* and left no trace in logger.errors
C11_FailedHaveProject ==
    /\ \A i \in pullsFailed :
          /\ i <= Len(projects)
          /\ projects[i].name = repos[i].name
          /\ projects[i].lastPR = <<>>
    /\ CountLogged("Failed to process repo")
          = Cardinality({i \in 1..Len(projects) : ~repos[i].hasOwner})

\* the step on which a pulls.list request threw
C11_StepAbsorbs ==
    (pullsFailed' # pullsFailed) =>
        LET i == Len(projects) + 1 IN
        /\ pc = "getRepoDetails"
        /\ pullsFailed' = pullsFailed \cup {i}
        /\ projects' = Append(projects, ProjectSummary(repos[i].name, <<>>))
        /\ loggerErrors' = loggerErrors
        /\ errors' = errors
        /\ exitCode' = -1
        /\ pc' = IF i < Len(repos) THEN "getRepoDetails" ELSE "getUserActivity"
        /\ CanStep'

C11_PullsFailureAbsorbed ==
    /\ []C11_FailedHaveProject
    /\ [][C11_StepAbsorbs]_vars

\* the pull-request fetch of the first of two repositories threw: the run went
\* on, the second repository has its lastPR, nothing was logged and the file
\* is written
C11_Witness ==
    /\ pc = "exited"
    /\ exitCode = 0
    /\ outFile # <<>>
    /\ Len(repos) = 2
    /\ pullsFailed = {1}
    /\ projects[1].lastPR = <<>>
    /\ projects[2].lastPR # <<>>
    /\ loggerErrors = <<>>
    /\ errors = <<>>

(***************************************************************************)
(* C12  The markdown file is written at most once in a run, by the last    *)
(* step, after the connection validation, the repository listing, every    *)
(* repository's detail fetch, the activity fetch, the correlation and the  *)
(* console rendering: a run that has not reached that write, or was        *)
(* aborted, has produced no file.                                          *)
(***************************************************************************)
\* every fetched activity that names a project is stored in the first such project
ActivitiesMapped ==
    \A k \in 1..Len(userActivities) : \A i \in 1..Len(projects) :
        IsOwner(i, userActivities[k]) => InSeq(userActivities[k], projects[i].myActivities)

\* the file exists only in a finished run, with all the earlier steps done
C12_WrittenOnlyAtEnd ==
    /\ outFile # <<>> =>
          /\ pc = "exited" /\ exitCode = 0
          /\ built /\ ~ConnectFailed
          /\ ~ListingFailed /\ totalReposAnalyzed = Len(repos)
          /\ Len(projects) = Len(repos)
          /\ ActivitiesMapped
          /\ consoleOut # <<>>
          /\ markdownContent # <<>> /\ outFile = markdownContent
    /\ pc # "exited" => outFile = <<>>
    /\ (pc = "exited" /\ exitCode # 0) => outFile = <<>>

\* the file changes on one step only: the one that leaves writeFile, from no
\* file to the document, and ends the run
C12_StepWrites ==
    (outFile' # outFile) =>
        /\ pc = "writeFile" /\ pc' = "exited"
        /\ outFile = <<>> /\ outFile' = markdownContent
        /\ exitCode' = 0

C12_FileWrittenLast ==
    /\ []C12_WrittenOnlyAtEnd
    /\ [][C12_StepWrites]_vars

\* a finished run over two repositories and two fetched activities, one of
\* them mapped to a project: the file holds the generated document
C12_Witness ==
    /\ pc = "exited"
    /\ outFile # <<>>
    /\ outFile = markdownContent
    /\ Len(repos) = 2
    /\ Len(userActivities) = 2
    /\ projects[1].myActivities # <<>>
    /\ consoleOut # <<>>

(***************************************************************************)
(* C13  In every executive summary createdPRs + comments + reviews is at   *)
(* most totalActivities, and equal to it exactly when no stored activity   *)
(* dated yesterday has a type other than pr_created, pr_commented and      *)
(* pr_reviewed.  An IssueCommentEvent without a pull-request reference,    *)
(* and no other event, becomes an issue_commented activity; dated          *)
(* yesterday it counts in totalActivities and in none of the three counts, *)
(* and its project is active.                                              *)
(***************************************************************************)
PRTypes == {"pr_created", "pr_commented", "pr_reviewed"}

\* the three per-type counts of a summary, added up
Counted(summary) == summary.createdPRs + summary.comments + summary.reviews

C13_TypeCounts ==
    LET summary == getExecutiveSummary(now)
        others == {ij \in StoredYesterday(now) : StoredAt(ij).type \notin PRTypes}
        issueComments == {ij \in StoredYesterday(now) : StoredAt(ij).type = "issue_commented"}
    IN  /\ Counted(summary) <= summary.totalActivities
        /\ (Counted(summary) = summary.totalActivities) <=> (others = {})
        /\ summary.totalActivities = Counted(summary) + Cardinality(issueComments)
        /\ \A ij \in issueComments : Truthy(hasYesterdayActivity(projects[ij[1]], now))
        /\ consoleOut # <<>> =>
              Counted(consoleOut[1].summary) <= consoleOut[1].summary.totalActivities
        /\ markdownContent # <<>> =>
              Counted(markdownContent[1].summary) <= markdownContent[1].summary.totalActivities
        /\ pc = "getUserActivity" =>
              \A e \in Events :
                  (ActivityOfEvent(e) # <<>> /\ ActivityOfEvent(e)[1].type = "issue_commented")
                  <=> (e.type = "IssueCommentEvent" /\ ~e.flag)

\* the only fetched activity is a comment on a plain issue of yesterday, in a
\* project without lastPR: the written summary shows one activity, one active
\* repository and zero in each of the three counts
C13_Witness ==
    /\ pc = "exited"
    /\ outFile # <<>>
    /\ Len(userActivities) = 1
    /\ userActivities[1].type = "issue_commented"
    /\ Len(projects) = 1
    /\ projects[1].lastPR = <<>>
    /\ projects[1].myActivities = userActivities
    /\ outFile[1].summary.totalActivities = 1
    /\ outFile[1].summary.activeRepos = 1
    /\ Counted(outFile[1].summary) = 0

====
